---- MODULE Spec2Model ----
(***************************************************************************)
(* Model of the PIX checkout backend: the charge-creation handler, the     *)
(* status-query handler and the webhook handler, with the Payment Provider *)
(* client (lib/slimpay.ts) and the Tracking Service client (lib/utmfy.ts). *)
(*                                                                         *)
(* One request is in flight at a time (the handlers share no state).  A    *)
(* handler runs from its entry to its first await in one step, and each    *)
(* await of an outbound call resumes in a step of its own, which draws the *)
(* outcome of the call from the outcomes the network can produce.          *)
(*                                                                         *)
(* JavaScript strings that the code tests for truthiness or rewrites are   *)
(* sequences of one-character strings; Undefined stands for a field that   *)
(* is absent.  Objects that may be absent carry a `present` flag.  Amounts *)
(* are integers (minor units); the code adds and multiplies them and       *)
(* nothing it does depends on a fractional part.                           *)
(***************************************************************************)
EXTENDS Integers, Sequences, FiniteSets, TLC

VARIABLES env, handler, pc, request, calls, pixResult, utmfyResult, response

vars == <<env, handler, pc, request, calls, pixResult, utmfyResult, response>>

(***************************************************************************)
(* Bounds of the model.                                                    *)
(***************************************************************************)
MaxItems == 2
MaxCpfDigits == 12
MaxCepDigits == 8
MaxApplications == 2

(***************************************************************************)
(* Program constants.                                                      *)
(***************************************************************************)
CpfLen == 11
CepLen == 8
CepSplit == 5

(***************************************************************************)
(* Strings.                                                                *)
(***************************************************************************)
Digits == {"0", "1", "2", "3", "4", "5", "6", "7", "8", "9"}

Undefined == <<"undefined">>

\* JavaScript truthiness of a string-valued field: absent and "" are falsy.
Truthy(s) == s # Undefined /\ s # <<>>

\* s.replace(/\D/g, ""): every character that is not a digit is removed.
RECURSIVE replaceNonDigits(_)
replaceNonDigits(s) ==
    IF s = <<>> THEN <<>>
    ELSE (IF Head(s) \in Digits THEN <<Head(s)>> ELSE <<>>)
             \o replaceNonDigits(Tail(s))

\* s.slice(from, to) with 0 <= from <= to, zero-based, end exclusive.
slice(s, from, to) ==
    SubSeq(s, from + 1, IF to < Len(s) THEN to ELSE Len(s))

(***************************************************************************)
(* Inputs: the request bodies the charge-creation handler is given.        *)
(***************************************************************************)
DigitChars == <<"1", "2", "3", "4", "5", "6", "7", "8", "9", "0">>

\* The first n digits of 1234567890123...
DigitRun(n) == [i \in 1..n |-> DigitChars[((i - 1) % 10) + 1]]

\* A document typed with its usual punctuation: 123.456.789-01.
RECURSIVE CpfMask(_, _)
CpfMask(s, i) ==
    IF s = <<>> THEN <<>>
    ELSE <<Head(s)>>
         \o (IF Len(s) > 1 /\ i \in {3, 6} THEN <<".">>
             ELSE IF Len(s) > 1 /\ i = 9 THEN <<"-">> ELSE <<>>)
         \o CpfMask(Tail(s), i + 1)

CpfInputs ==
    {Undefined, <<>>, <<"a", "b", "c">>}
        \cup {DigitRun(n) : n \in (CpfLen - 1)..MaxCpfDigits}
        \cup {CpfMask(DigitRun(n), 1) : n \in (CpfLen - 1)..MaxCpfDigits}

\* A postal code typed bare, or with a hyphen after its fifth digit.
CepInputs ==
    {DigitRun(n) : n \in (CepLen - 1)..MaxCepDigits}
        \cup {slice(DigitRun(n), 0, CepSplit) \o <<"-">>
                  \o slice(DigitRun(n), CepSplit, n) :
                      n \in (CepLen - 1)..MaxCepDigits}

NameInput == <<"A", "n", "a">>
EmailInput == <<"a", "@", "b">>
PhoneInput == <<"(", "1", "1", ")", "9", "-", "8">>

FullCustomer(cpf) ==
    [present |-> TRUE, name |-> NameInput, email |-> EmailInput,
     cpf |-> cpf, phone |-> PhoneInput]

\* A customer absent, complete (with every document of CpfInputs), or with
\* one of name, email, phone absent or empty.
CustomerInputs ==
    {[present |-> FALSE]}
        \cup {FullCustomer(c) : c \in CpfInputs}
        \cup {[FullCustomer(DigitRun(CpfLen)) EXCEPT ![f] = v] :
                  f \in {"name", "email", "phone"}, v \in {Undefined, <<>>}}

AddressInputs ==
    {[present |-> FALSE]} \cup {[present |-> TRUE, cep |-> c] : c \in CepInputs}

ItemInputs ==
    [id : {"pen"}, price : {3, 10}, quantity : {1, 2}]

RECURSIVE SeqsUpTo(_, _)
SeqsUpTo(S, n) ==
    IF n = 0 THEN {<<>>}
    ELSE LET shorter == SeqsUpTo(S, n - 1)
         IN  shorter \cup {Append(s, x) : s \in shorter, x \in S}

ItemsInputs ==
    {[present |-> FALSE]}
        \cup {[present |-> TRUE, list |-> l] : l \in SeqsUpTo(ItemInputs, MaxItems)}

ShippingInputs ==
    {[present |-> FALSE]} \cup {[present |-> TRUE, price |-> p] : p \in {0, 5}}

TotalInputs == {0, 25}

TrackingKeys ==
    {"src", "sck", "utm_source", "utm_medium", "utm_campaign", "utm_content",
     "utm_term"}

NoTrackingParams == [present |-> FALSE]

\* trackingParams: {} and the objects made from it.
EmptyTrackingParams ==
    [k \in TrackingKeys \cup {"present"} |->
        IF k = "present" THEN TRUE ELSE Undefined]

TrackingValue(k) == <<k, "=", "1">>

\* trackingParams absent, empty, with utm_source alone, with all seven set,
\* with src and utm_term alone, and with an empty utm_medium.
TrackingParamsInputs ==
    {NoTrackingParams,
     EmptyTrackingParams,
     [EmptyTrackingParams EXCEPT !["utm_source"] = TrackingValue("utm_source")],
     [k \in TrackingKeys \cup {"present"} |->
         IF k = "present" THEN TRUE ELSE TrackingValue(k)],
     [EmptyTrackingParams EXCEPT !["src"] = TrackingValue("src"),
                                 !["utm_term"] = TrackingValue("utm_term")],
     [EmptyTrackingParams EXCEPT !["utm_medium"] = <<>>,
                                 !["utm_campaign"] = TrackingValue("utm_campaign")]}

\* A complete body: 2 x 10, no shipping option.
CompleteBody(trackingParams) ==
    [parsed |-> TRUE,
     customer |-> FullCustomer(DigitRun(CpfLen)),
     address |-> [present |-> TRUE, cep |-> DigitRun(CepLen)],
     items |-> [present |-> TRUE,
                list |-> <<[id |-> "pen", price |-> 10, quantity |-> 2]>>],
     total |-> 25,
     shipping |-> [present |-> FALSE],
     trackingParams |-> trackingParams]

\* request.json(): a body that does not parse, or the parsed object: every
\* combination of customer, address, items, total and shipping without
\* trackingParams, and a complete body with each of TrackingParamsInputs.
CreatePixRequest ==
    {[parsed |-> FALSE]}
        \cup [parsed : {TRUE}, customer : CustomerInputs, address : AddressInputs,
              items : ItemsInputs, total : TotalInputs, shipping : ShippingInputs,
              trackingParams : {NoTrackingParams}]
        \cup {CompleteBody(t) : t \in TrackingParamsInputs}

(***************************************************************************)
(* Process configuration.                                                  *)
(***************************************************************************)
WebhookToken == <<"s", "3", "c">>

EnvInputs ==
    [SLIMPAY_PUBLIC_KEY : BOOLEAN, SLIMPAY_SECRET_KEY : BOOLEAN,
     SLIMPAY_WEBHOOK_TOKEN : {Undefined, WebhookToken}]

(***************************************************************************)
(* Responses and results.                                                  *)
(***************************************************************************)
NoResponse == [status |-> 0]
NoResult == [returned |-> FALSE]

json(status, body) == [status |-> status, body |-> body]

(***************************************************************************)
(* Payment Provider client (lib/slimpay.ts).                               *)
(***************************************************************************)
ConfigError == "SlimPay credentials not configured"

\* What the network can answer to a create-charge request: a 2xx with a body
\* of the documented shape, a non-2xx with or without a message ("" stands
\* for none), or a fault (fetch or response.json() throws an Error).
PixNetOutcomes ==
    [kind : {"ok"},
     body : [transactionId : {"tx1", "tx2"}, pix : {[qrCode |-> "000201", expiresAt |-> "exp"]},
             order : {[id |-> "ord", amount |-> 1]}]]
        \cup [kind : {"http_error"}, message : {"", "Documento invalido"}]
        \cup [kind : {"fault"}, message : {"fetch failed"}]

\* A getHeaders that checks the secret key alone.
getHeadersThrows_secretOnly(e) == ~e.SLIMPAY_SECRET_KEY

\* getHeaders throws unless both keys are set (TRUE: the variable holds a
\* non-empty value).
getHeadersThrows(e) == ~e.SLIMPAY_PUBLIC_KEY \/ ~e.SLIMPAY_SECRET_KEY

createPixPayment(e, net) ==
    IF getHeadersThrows(e)
    THEN [returned |-> TRUE, success |-> FALSE, error |-> ConfigError]
    ELSE CASE net.kind = "ok" ->
                  [returned |-> TRUE, success |-> TRUE, data |-> net.body]
           [] net.kind = "http_error" ->
                  [returned |-> TRUE, success |-> FALSE,
                   error |-> IF net.message # "" THEN net.message
                             ELSE "Erro ao criar cobranca PIX"]
           [] net.kind = "fault" ->
                  [returned |-> TRUE, success |-> FALSE, error |-> net.message]

hasData(r) == "data" \in DOMAIN r

generateOrderId == "ORD-1"

(***************************************************************************)
(* Tracking Service client (lib/utmfy.ts).                                 *)
(***************************************************************************)
UtmfyNetOutcomes == {"ok", "http_error", "fault"}

\* The status sent as given.
utmfyStatus_asGiven(status) == status

\* The status put on the wire: "approved" is sent as "paid".
utmfyStatus(status) == IF status = "approved" THEN "paid" ELSE status

sendOrderToUtmfy(net) ==
    [returned |-> TRUE, success |-> net = "ok"]

\* The record of one invocation of sendOrderToUtmfy.
UtmfyCall(params) ==
    [api |-> "sendOrderToUtmfy", params |-> params,
     wireStatus |-> utmfyStatus(params.status)]

(***************************************************************************)
(* Charge-creation handler.                                                *)
(***************************************************************************)
\* A validation that forgets the phone.
customerIncomplete_noPhone(body) ==
    \/ ~body.customer.present
    \/ ~Truthy(body.customer.name)
    \/ ~Truthy(body.customer.email)
    \/ ~Truthy(body.customer.cpf)

\* !customer?.name || !customer?.email || !customer?.cpf || !customer?.phone
customerIncomplete(body) ==
    \/ ~body.customer.present
    \/ ~Truthy(body.customer.name)
    \/ ~Truthy(body.customer.email)
    \/ ~Truthy(body.customer.cpf)
    \/ ~Truthy(body.customer.phone)

cartEmpty(body) ==
    \/ ~body.items.present
    \/ Len(body.items.list) = 0

\* items.reduce((acc, item) => acc + item.price * item.quantity, 0)
RECURSIVE reduceItems(_, _)
reduceItems(list, acc) ==
    IF list = <<>> THEN acc
    ELSE reduceItems(Tail(list), acc + Head(list).price * Head(list).quantity)

productsTotal(body) == reduceItems(body.items.list, 0)

\* shipping?.price || 0
shippingFee(body) ==
    IF body.shipping.present /\ body.shipping.price # 0
    THEN body.shipping.price ELSE 0

\* A handler that trusts the client: charges the body's own total.
finalAmount_clientTotal(body) == body.total

finalAmount(body) == productsTotal(body) + shippingFee(body)

cpfClean(body) == replaceNonDigits(body.customer.cpf)

phoneClean(body) == replaceNonDigits(body.customer.phone)

cepNumbers(body) == replaceNonDigits(body.address.cep)

\* A hyphen put after the fifth digit of any longer code.
cepFormatted_anyLength(body) ==
    IF Len(cepNumbers(body)) > CepSplit
    THEN slice(cepNumbers(body), 0, CepSplit) \o <<"-">>
             \o slice(cepNumbers(body), CepSplit, Len(cepNumbers(body)))
    ELSE cepNumbers(body)

cepFormatted(body) ==
    IF Len(cepNumbers(body)) = CepLen
    THEN slice(cepNumbers(body), 0, CepSplit) \o <<"-">>
             \o slice(cepNumbers(body), CepSplit, Len(cepNumbers(body)))
    ELSE cepNumbers(body)

\* address.cep on an absent address throws a TypeError.
addressThrows(body) == ~body.address.present

cpfInvalid(body) == Len(cpfClean(body)) # CpfLen

\* trackingParams?.[k]
trackingParam(body, k) ==
    IF body.trackingParams.present THEN body.trackingParams[k] ELSE Undefined

SourceTag == "CometaPapelaria"

\* A metadata bag that leaves utm_campaign out.
pixMetadata_noCampaign(body) ==
    [k \in {"source"} \cup {p \in {"utm_source", "utm_medium"} :
                                Truthy(trackingParam(body, p))} |->
        IF k = "source" THEN <<SourceTag>> ELSE trackingParam(body, k)]

\* metadata: the source tag and, spread in when truthy, utm_source,
\* utm_medium and utm_campaign.  Each value is a sequence: the tag as one
\* element, a parameter as its characters.
pixMetadata(body) ==
    [k \in {"source"} \cup {p \in {"utm_source", "utm_medium", "utm_campaign"} :
                                Truthy(trackingParam(body, p))} |->
        IF k = "source" THEN <<SourceTag>> ELSE trackingParam(body, k)]

\* The argument of createPixPayment.
pixRequestData(body) ==
    [identifier |-> generateOrderId,
     amount |-> finalAmount(body),
     shippingFee |-> shippingFee(body),
     discount |-> 0,
     client |-> [name |-> body.customer.name, email |-> body.customer.email,
                 phone |-> phoneClean(body), document |-> cpfClean(body),
                 cpf |-> cpfClean(body),
                 address |-> [country |-> "BR", zipCode |-> cepFormatted(body)]],
     products |-> body.items.list,
     metadata |-> pixMetadata(body)]

\* The argument of sendOrderToUtmfy in the charge-creation handler.
pixUtmfyParams(body) ==
    [orderId |-> generateOrderId,
     status |-> "waiting_payment",
     paymentMethod |-> "pix",
     customer |-> [name |-> body.customer.name, email |-> body.customer.email,
                   phone |-> phoneClean(body), document |-> cpfClean(body)],
     products |-> [i \in 1..Len(body.items.list) |->
                      [id |-> body.items.list[i].id,
                       quantity |-> body.items.list[i].quantity,
                       priceInCents |-> body.items.list[i].price * 100]],
     totalPriceInCents |-> finalAmount(body) * 100,
     trackingParams |-> IF body.trackingParams.present THEN body.trackingParams
                        ELSE EmptyTrackingParams]

pixSuccessBody(data) ==
    [success |-> TRUE, transactionId |-> data.transactionId,
     orderId |-> generateOrderId,
     pix |-> [qrcode |-> data.pix.qrCode, expiresAt |-> data.pix.expiresAt],
     order |-> [id |-> data.order.id, amount |-> data.order.amount]]

\* The answer to a failed create-charge call, with a generic message and 500.
pixFailureResponse_generic(result) ==
    json(500, [error |-> "Erro interno ao processar pagamento"])

\* The answer to a failed create-charge call: pixResult.error || "Erro ao
\* gerar PIX", with 400.
pixFailureResponse(result) ==
    json(400, [error |-> IF result.error # "" THEN result.error
                         ELSE "Erro ao gerar PIX"])

\* The final answer made to depend on the Tracking Service result.
pixFinalResponse_tracked(result, utmfy) ==
    IF utmfy.success THEN json(200, pixSuccessBody(result.data))
    ELSE json(500, [error |-> "Erro interno ao processar pagamento"])

\* The final answer: the Tracking Service result is not read (a fault is
\* caught and logged).
pixFinalResponse(result, utmfy) == json(200, pixSuccessBody(result.data))

\* The handler up to its first outbound call: the response it returns before
\* any call, or NoResponse when it goes on to call the Payment Provider.
pixEarlyResponse(body) ==
    IF ~body.parsed
        THEN json(500, [error |-> "Erro interno ao processar pagamento"])
    ELSE IF customerIncomplete(body)
        THEN json(400, [error |-> "Dados do cliente incompletos"])
    ELSE IF cartEmpty(body)
        THEN json(400, [error |-> "Carrinho vazio"])
    ELSE IF addressThrows(body)
        THEN json(500, [error |-> "Erro interno ao processar pagamento"])
    ELSE IF cpfInvalid(body)
        THEN json(400, [error |-> "CPF invalido. Deve conter 11 digitos."])
    ELSE NoResponse

PixCreatePost(body) ==
    /\ handler = "idle"
    /\ handler' = "create"
    /\ request' = body
    /\ response' = pixEarlyResponse(body)
    /\ IF pixEarlyResponse(body) # NoResponse
       THEN /\ pc' = "done"
            /\ calls' = <<>>
       ELSE /\ pc' = "awaitCreatePixPayment"
            /\ calls' = <<[api |-> "createPixPayment",
                           sent |-> ~getHeadersThrows(env),
                           data |-> pixRequestData(body)]>>
    /\ UNCHANGED <<env, pixResult, utmfyResult>>

\* createPixPayment has returned: relay its failure, or report the order.
PixCreateAfterPayment(net) ==
    /\ handler = "create"
    /\ pc = "awaitCreatePixPayment"
    /\ pixResult' = createPixPayment(env, net)
    /\ IF ~pixResult'.success \/ ~hasData(pixResult')
       THEN /\ response' = pixFailureResponse(pixResult')
            /\ pc' = "done"
            /\ calls' = calls
       ELSE /\ response' = response
            /\ pc' = "awaitSendOrderToUtmfy"
            /\ calls' = Append(calls, UtmfyCall(pixUtmfyParams(request)))
    /\ UNCHANGED <<env, handler, request, utmfyResult>>

\* sendOrderToUtmfy has returned: its result is not read.
PixCreateAfterTracking(net) ==
    /\ handler = "create"
    /\ pc = "awaitSendOrderToUtmfy"
    /\ utmfyResult' = sendOrderToUtmfy(net)
    /\ response' = pixFinalResponse(pixResult, utmfyResult')
    /\ pc' = "done"
    /\ UNCHANGED <<env, handler, request, calls, pixResult>>

(***************************************************************************)
(* Status-query handler.                                                   *)
(***************************************************************************)
\* searchParams.get(name): Undefined stands for null.
IdInputs == {Undefined, <<>>, <<"i", "d">>}

StatusQuery == [transactionId : IdInputs, orderId : IdInputs]

ProviderStatuses ==
    {"COMPLETED", "PENDING", "FAILED", "REJECTED", "CANCELED", "REFUNDED",
     "CHARGED_BACK", "EXPIRED"}

\* String.prototype.toLowerCase on the strings the model uses.
toLowerCase(s) ==
    CASE s = "COMPLETED" -> "completed"
      [] s = "PENDING" -> "pending"
      [] s = "FAILED" -> "failed"
      [] s = "REJECTED" -> "rejected"
      [] s = "CANCELED" -> "canceled"
      [] s = "REFUNDED" -> "refunded"
      [] s = "CHARGED_BACK" -> "charged_back"
      [] s = "EXPIRED" -> "expired"
      [] s = "PIX" -> "pix"
      [] s = "BOLETO" -> "boleto"

\* A mapping without the CANCELED case: it falls to the default.
mapSlimPayStatus_noCanceled(status) ==
    CASE status = "COMPLETED" -> "paid"
      [] status = "PENDING" -> "waiting_payment"
      [] status \in {"FAILED", "REJECTED"} -> "refused"
      [] status = "REFUNDED" -> "refunded"
      [] status = "CHARGED_BACK" -> "chargedback"
      [] OTHER -> "waiting_payment"

mapSlimPayStatus(status) ==
    CASE status = "COMPLETED" -> "paid"
      [] status = "PENDING" -> "waiting_payment"
      [] status \in {"FAILED", "REJECTED", "CANCELED"} -> "refused"
      [] status = "REFUNDED" -> "refunded"
      [] status = "CHARGED_BACK" -> "chargedback"
      [] OTHER -> "waiting_payment"

\* What the network can answer to a get-transaction request.
TransactionNetOutcomes ==
    [kind : {"ok"},
     body : [id : {"tx1"}, identifier : {"ORD-1"}, status : ProviderStatuses,
             paymentMethod : {"PIX"}, amount : {25}]]
        \cup [kind : {"http_error"}, message : {"", "Transaction not found"}]
        \cup [kind : {"fault"}, message : {"fetch failed"}]

getTransaction(e, net) ==
    IF getHeadersThrows(e)
    THEN [returned |-> TRUE, success |-> FALSE, error |-> ConfigError]
    ELSE CASE net.kind = "ok" ->
                  [returned |-> TRUE, success |-> TRUE, data |-> net.body]
           [] net.kind = "http_error" ->
                  [returned |-> TRUE, success |-> FALSE,
                   error |-> IF net.message # "" THEN net.message
                             ELSE "Erro ao buscar transacao"]
           [] net.kind = "fault" ->
                  [returned |-> TRUE, success |-> FALSE, error |-> net.message]

\* transactionId || undefined
orUndefined(s) == IF Truthy(s) THEN s ELSE Undefined

\* The internal status returned in place of the provider's own.
statusOf_mapped(transaction) == mapSlimPayStatus(transaction.status)

\* mappedStatus === "paid" ? "paid" : transaction.status.toLowerCase()
statusOf(transaction) ==
    IF mapSlimPayStatus(transaction.status) = "paid"
    THEN "paid" ELSE toLowerCase(transaction.status)

statusBody(transaction) ==
    [transactionId |-> transaction.id, orderId |-> transaction.identifier,
     status |-> statusOf(transaction),
     paymentMethod |-> transaction.paymentMethod, amount |-> transaction.amount]

PixStatusGet(query) ==
    /\ handler = "idle"
    /\ handler' = "status"
    /\ request' = [parsed |-> TRUE, query |-> query]
    /\ IF ~Truthy(query.transactionId) /\ ~Truthy(query.orderId)
       THEN /\ response' = json(400, [error |-> "transactionId ou orderId e obrigatorio"])
            /\ pc' = "done"
            /\ calls' = <<>>
       ELSE /\ response' = NoResponse
            /\ pc' = "awaitGetTransaction"
            /\ calls' = <<[api |-> "getTransaction",
                           sent |-> ~getHeadersThrows(env),
                           params |-> [id |-> orUndefined(query.transactionId),
                                       clientIdentifier |-> orUndefined(query.orderId)]]>>
    /\ UNCHANGED <<env, pixResult, utmfyResult>>

PixStatusAfterTransaction(net) ==
    /\ handler = "status"
    /\ pc = "awaitGetTransaction"
    /\ pixResult' = getTransaction(env, net)
    /\ IF ~pixResult'.success \/ ~hasData(pixResult')
       THEN response' = json(404, [error |-> IF pixResult'.error # ""
                                             THEN pixResult'.error
                                             ELSE "Transacao nao encontrada"])
       ELSE response' = json(200, statusBody(pixResult'.data))
    /\ pc' = "done"
    /\ UNCHANGED <<env, handler, request, calls, utmfyResult>>


(***************************************************************************)
(* Webhook handler.                                                        *)
(***************************************************************************)
\* A verification that accepts every token.
verifyWebhookToken_acceptAll(receivedToken, expectedToken) == TRUE

verifyWebhookToken(receivedToken, expectedToken) ==
    IF ~Truthy(expectedToken) THEN TRUE
    ELSE receivedToken = expectedToken

WebhookEvents ==
    {"TRANSACTION_PAID", "TRANSACTION_CANCELED", "TRANSACTION_REFUNDED",
     "TRANSACTION_CREATED", "TRANSACTION_EXPIRED"}

PayedAtInput == <<"2", "0", "2", "4">>

WebhookTransactionInputs ==
    {[present |-> FALSE]}
        \cup [present : {TRUE}, identifier : {"ORD-1"}, status : ProviderStatuses,
              paymentMethod : {"PIX"}, amount : {25},
              payedAt : {Undefined, PayedAtInput}]

WebhookClientInputs ==
    {[present |-> FALSE]}
        \cup [present : {TRUE}, name : {NameInput}, email : {EmailInput},
              phone : {PhoneInput},
              cpf : {Undefined, DigitRun(CpfLen)}, cnpj : {Undefined}]
        \cup [present : {TRUE}, name : {NameInput}, email : {EmailInput},
              phone : {PhoneInput},
              cpf : {Undefined}, cnpj : {DigitRun(CpfLen + 3)}]

WebhookOrderItemInputs ==
    [price : {25},
     product : [id : {<<"p">>}, externalId : {Undefined, <<"x">>}]]

WebhookOrderItemsInputs ==
    {[present |-> FALSE]}
        \cup {[present |-> TRUE, list |-> l] : l \in SeqsUpTo(WebhookOrderItemInputs, 1)}

\* request.json(): a body that does not parse (or parses to null), or the
\* parsed object.
SlimPayWebhookPayload ==
    {[parsed |-> FALSE]}
        \cup [parsed : {TRUE}, event : WebhookEvents,
              token : {Undefined, WebhookToken, <<"b", "a", "d">>},
              transaction : WebhookTransactionInputs,
              client : WebhookClientInputs,
              orderItems : WebhookOrderItemsInputs]

\* a || b for strings
or(a, b) == IF Truthy(a) THEN a ELSE b

\* The events the switch reports to the Tracking Service.
webhookReports(event) ==
    event \in {"TRANSACTION_PAID", "TRANSACTION_CANCELED", "TRANSACTION_REFUNDED"}

\* The status each reporting case of the switch passes to sendOrderToUtmfy.
webhookStatus(event) ==
    CASE event = "TRANSACTION_PAID" -> "approved"
      [] event = "TRANSACTION_CANCELED" -> "refused"
      [] event = "TRANSACTION_REFUNDED" -> "refunded"

\* Building the argument of sendOrderToUtmfy reads client.name and calls
\* orderItems.map: a TypeError when either is absent, thrown inside the
\* case's own try block.
webhookParamsThrow(payload) ==
    ~payload.client.present \/ ~payload.orderItems.present

\* The argument of sendOrderToUtmfy in the webhook handler.
webhookUtmfyParams(payload) ==
    [orderId |-> payload.transaction.identifier,
     status |-> webhookStatus(payload.event),
     paymentMethod |-> toLowerCase(payload.transaction.paymentMethod),
     customer |-> [name |-> payload.client.name, email |-> payload.client.email,
                   phone |-> payload.client.phone,
                   document |-> or(payload.client.cpf, or(payload.client.cnpj, <<>>))],
     products |-> [i \in 1..Len(payload.orderItems.list) |->
                      [id |-> or(payload.orderItems.list[i].product.externalId,
                                 payload.orderItems.list[i].product.id),
                       quantity |-> 1,
                       priceInCents |-> payload.orderItems.list[i].price * 100]],
     totalPriceInCents |-> payload.transaction.amount * 100,
     approvedDate |-> IF payload.event = "TRANSACTION_PAID"
                      THEN payload.transaction.payedAt ELSE Undefined]

\* The usual answer of a catch-all: 500.
webhookErrorResponse_500 == json(500, [error |-> "Error processing webhook"])

\* The answer of the outer catch: 200, so that the provider does not retry.
webhookErrorResponse == json(200, [error |-> "Error processing webhook"])

webhookSuccessResponse(payload) ==
    json(200, [success |-> TRUE, event |-> payload.event,
               orderId |-> payload.transaction.identifier,
               status |-> mapSlimPayStatus(payload.transaction.status)])

\* The token check: configured, and the payload's token is not the expected one.
webhookTokenRejected(e, payload) ==
    /\ Truthy(e.SLIMPAY_WEBHOOK_TOKEN)
    /\ ~verifyWebhookToken(payload.token, e.SLIMPAY_WEBHOOK_TOKEN)

\* The handler up to its outbound call: the response it returns without
\* awaiting a call, or NoResponse when it awaits sendOrderToUtmfy.
webhookEarlyResponse(e, payload) ==
    IF ~payload.parsed
        THEN webhookErrorResponse
    ELSE IF webhookTokenRejected(e, payload)
        THEN json(401, [error |-> "Invalid token"])
    ELSE IF ~payload.transaction.present
        THEN webhookErrorResponse
    ELSE IF webhookReports(payload.event) /\ ~webhookParamsThrow(payload)
        THEN NoResponse
    ELSE webhookSuccessResponse(payload)

WebhookPost(payload) ==
    /\ handler = "idle"
    /\ handler' = "webhook"
    /\ request' = payload
    /\ response' = webhookEarlyResponse(env, payload)
    /\ IF webhookEarlyResponse(env, payload) # NoResponse
       THEN /\ pc' = "done"
            /\ calls' = <<>>
       ELSE /\ pc' = "awaitSendOrderToUtmfy"
            /\ calls' = <<UtmfyCall(webhookUtmfyParams(payload))>>
    /\ UNCHANGED <<env, pixResult, utmfyResult>>

\* sendOrderToUtmfy has returned: its result is not read.
WebhookAfterTracking(net) ==
    /\ handler = "webhook"
    /\ pc = "awaitSendOrderToUtmfy"
    /\ utmfyResult' = sendOrderToUtmfy(net)
    /\ response' = webhookSuccessResponse(request)
    /\ pc' = "done"
    /\ UNCHANGED <<env, handler, request, calls, pixResult>>


(***************************************************************************)
(* The request is answered; the next one starts from a clean slate.        *)
(***************************************************************************)
Finish ==
    /\ pc = "done"
    /\ handler' = "idle"
    /\ pc' = "idle"
    /\ request' = [parsed |-> FALSE]
    /\ calls' = <<>>
    /\ pixResult' = NoResult
    /\ utmfyResult' = NoResult
    /\ response' = NoResponse
    /\ UNCHANGED env

Init ==
    /\ env \in EnvInputs
    /\ handler = "idle"
    /\ pc = "idle"
    /\ request = [parsed |-> FALSE]
    /\ calls = <<>>
    /\ pixResult = NoResult
    /\ utmfyResult = NoResult
    /\ response = NoResponse

Next ==
    \/ handler = "idle" /\ \E body \in CreatePixRequest : PixCreatePost(body)
    \/ \E net \in PixNetOutcomes : PixCreateAfterPayment(net)
    \/ \E net \in UtmfyNetOutcomes : PixCreateAfterTracking(net)
    \/ handler = "idle" /\ \E query \in StatusQuery : PixStatusGet(query)
    \/ \E net \in TransactionNetOutcomes : PixStatusAfterTransaction(net)
    \/ handler = "idle" /\ \E payload \in SlimPayWebhookPayload : WebhookPost(payload)
    \/ \E net \in UtmfyNetOutcomes : WebhookAfterTracking(net)
    \/ Finish

Spec == Init /\ [][Next]_vars

(***************************************************************************)
(* The status mappings as pure functions: mapSlimPayStatus applied to a    *)
(* status string, and mapStatusToUtmfy applied to a status string and then *)
(* to its own result.  `request` holds the input, `pc` the function and    *)
(* `calls` the results of the applications so far.                         *)
(***************************************************************************)
mapStatusToUtmfy(status) ==
    CASE status \in {"waiting_payment", "pending"} -> "waiting_payment"
      [] status \in {"approved", "paid"} -> "paid"
      [] status \in {"refused", "cancelled"} -> "refused"
      [] status = "refunded" -> "refunded"
      [] status = "chargeback" -> "chargedback"
      [] OTHER -> "waiting_payment"

\* The strings the mappings are applied to: the provider's statuses, the
\* internal statuses, the legacy aliases, and strings neither mapping names.
StatusInputs ==
    ProviderStatuses
        \cup {"waiting_payment", "paid", "refused", "refunded", "chargedback"}
        \cup {"pending", "approved", "cancelled", "chargeback"}
        \cup {"", "completed", "canceled", "failed", "rejected", "charged_back",
              "expired"}

MapInit ==
    /\ env = [SLIMPAY_PUBLIC_KEY |-> TRUE, SLIMPAY_SECRET_KEY |-> TRUE,
              SLIMPAY_WEBHOOK_TOKEN |-> Undefined]
    /\ handler = "map"
    /\ pc \in {"mapSlimPayStatus", "mapStatusToUtmfy"}
    /\ request \in {[parsed |-> TRUE, status |-> st] : st \in StatusInputs}
    /\ calls = <<>>
    /\ pixResult = NoResult
    /\ utmfyResult = NoResult
    /\ response = NoResponse

ApplyMapSlimPayStatus ==
    /\ pc = "mapSlimPayStatus"
    /\ calls = <<>>
    /\ calls' = <<mapSlimPayStatus(request.status)>>
    /\ UNCHANGED <<env, handler, pc, request, pixResult, utmfyResult, response>>

ApplyMapStatusToUtmfy ==
    /\ pc = "mapStatusToUtmfy"
    /\ Len(calls) < MaxApplications
    /\ calls' = Append(calls, mapStatusToUtmfy(IF calls = <<>> THEN request.status
                                               ELSE calls[Len(calls)]))
    /\ UNCHANGED <<env, handler, pc, request, pixResult, utmfyResult, response>>

MapNext ==
    \/ ApplyMapSlimPayStatus
    \/ ApplyMapStatusToUtmfy

MapSpec == MapInit /\ [][MapNext]_vars

(***************************************************************************)
(* Properties.                                                             *)
(***************************************************************************)
\* A string field that is missing or empty.
Missing(s) == s = Undefined \/ Len(s) = 0

\* The digits of s, in order.
DigitsOf(s) == SelectSeq(s, LAMBDA c : c \in Digits)

\* sum(item.price * item.quantity) over the items, plus the shipping fee.
RECURSIVE SumOfItems(_)
SumOfItems(list) ==
    IF Len(list) = 0 THEN 0
    ELSE SumOfItems(SubSeq(list, 1, Len(list) - 1))
             + list[Len(list)].price * list[Len(list)].quantity

ExpectedAmount(body) ==
    SumOfItems(body.items.list)
        + (IF body.shipping.present THEN body.shipping.price ELSE 0)

CallsTo(api) == {i \in 1..Len(calls) : calls[i].api = api}

\* C1: every create-charge call of the charge-creation handler carries the
\* amount sum(price * quantity) + shipping fee (0 without a shipping option),
\* and the same request with any other client-supplied total would carry the
\* same amount.
C1_AmountRecomputed ==
    handler = "create" =>
        \A i \in CallsTo("createPixPayment") :
            /\ calls[i].data.amount = ExpectedAmount(request)
            /\ \A t \in TotalInputs :
                   pixRequestData([request EXCEPT !.total = t]).amount
                       = calls[i].data.amount

\* C1 witness: a charge of 2 x 10 + 5 = 25 was requested for a body whose
\* total says 0.
C1_Witness ==
    /\ handler = "create"
    /\ CallsTo("createPixPayment") # {}
    /\ request.total = 0
    /\ request.shipping.present
    /\ Len(request.items.list) = 1
    /\ calls[1].data.amount = 25

\* The customer data or the cart of a parsed body is incomplete.
IncompleteBody(body) ==
    \/ ~body.customer.present
    \/ Missing(body.customer.name)
    \/ Missing(body.customer.email)
    \/ Missing(body.customer.cpf)
    \/ Missing(body.customer.phone)
    \/ ~body.items.present
    \/ Len(body.items.list) = 0

\* C2: a charge-creation request whose customer name, email, document or
\* phone is missing or empty, or whose item list is absent or empty, is
\* answered 400 and makes no outbound call at any point.
C2_IncompleteRejected ==
    (handler = "create" /\ request.parsed /\ IncompleteBody(request)) =>
        /\ pc = "done"
        /\ response.status = 400
        /\ calls = <<>>

\* C2 witness: a complete customer but for an empty phone, a non-empty cart,
\* answered 400.
C2_Witness ==
    /\ handler = "create"
    /\ request.parsed
    /\ request.customer.present
    /\ request.customer.phone = <<>>
    /\ request.items.present
    /\ Len(request.items.list) > 0
    /\ response.status = 400

\* C3 (as claimed): for a body that passes the presence checks, a document
\* whose digits are not exactly 11 is answered 400 with no outbound call, and
\* otherwise every outbound call carries exactly the 11 digits.
C3_DocumentChecked ==
    (handler = "create" /\ request.parsed /\ ~IncompleteBody(request)) =>
        IF Len(DigitsOf(request.customer.cpf)) # CpfLen
        THEN pc = "done" /\ response.status = 400 /\ calls = <<>>
        ELSE /\ \A i \in CallsTo("createPixPayment") :
                    /\ calls[i].data.client.document = DigitsOf(request.customer.cpf)
                    /\ calls[i].data.client.cpf = DigitsOf(request.customer.cpf)
             /\ \A i \in CallsTo("sendOrderToUtmfy") :
                    calls[i].params.customer.document = DigitsOf(request.customer.cpf)

\* C4: once the create-charge call has succeeded, the answer is 200 with
\* success = true and the provider's transaction id, PIX code and expiry,
\* whatever the Tracking Service call came to.
C4_TrackingDoesNotAlterSuccess ==
    (handler = "create" /\ pixResult.returned /\ pixResult.success) =>
        /\ pc \in {"awaitSendOrderToUtmfy", "done"}
        /\ pc = "done" =>
              /\ utmfyResult.returned
              /\ response.status = 200
              /\ response.body.success = TRUE
              /\ response.body.transactionId = pixResult.data.transactionId
              /\ response.body.pix.qrcode = pixResult.data.pix.qrCode
              /\ response.body.pix.expiresAt = pixResult.data.pix.expiresAt

\* C4 witness: the Tracking Service call failed and the answer is 200.
C4_Witness ==
    /\ handler = "create"
    /\ pc = "done"
    /\ pixResult.returned
    /\ pixResult.success
    /\ utmfyResult.returned
    /\ ~utmfyResult.success
    /\ response.status = 200
    /\ response.body.transactionId = "tx2"

\* A webhook token is configured.
TokenConfigured == ~Missing(env.SLIMPAY_WEBHOOK_TOKEN)

\* C5: a webhook is answered 401 exactly when a token is configured and the
\* payload's token differs from it, and then no Tracking Service call is
\* made; with no token configured, no payload token is answered 401.
C5_UnauthorizedIffMismatch ==
    (handler = "webhook" /\ request.parsed) =>
        /\ (response.status = 401) <=>
               (/\ pc = "done"
                /\ TokenConfigured
                /\ request.token # env.SLIMPAY_WEBHOOK_TOKEN)
        /\ (TokenConfigured /\ request.token # env.SLIMPAY_WEBHOOK_TOKEN)
               => (pc = "done" /\ calls = <<>>)
        /\ ~TokenConfigured => response.status # 401

\* C5 witness: a reporting event with a wrong token, answered 401.
C5_Witness ==
    /\ handler = "webhook"
    /\ request.parsed
    /\ request.event = "TRANSACTION_PAID"
    /\ request.transaction.present
    /\ request.token = <<"b", "a", "d">>
    /\ response.status = 401

\* The answer carries {error}, or {success, event, orderId, status}.
ErrorBody == "error" \in DOMAIN response.body
SuccessBody ==
    /\ DOMAIN response.body = {"success", "event", "orderId", "status"}
    /\ response.body.success = TRUE
    /\ response.body.event = request.event
    /\ response.body.orderId = request.transaction.identifier

\* A webhook that was parsed and passed (or skipped) token verification.
VerifiedWebhook ==
    /\ handler = "webhook"
    /\ request.parsed
    /\ ~(TokenConfigured /\ request.token # env.SLIMPAY_WEBHOOK_TOKEN)

\* C6 (as claimed): a webhook not answered 401 is answered 200, with {error}
\* when the body is unparseable or transaction, client or orderItems is
\* missing, and with {success, event, orderId, status} otherwise.
C6_ErrorBodyOnAnyMissingField ==
    (handler = "webhook" /\ pc = "done" /\ response.status # 401) =>
        /\ response.status = 200
        /\ IF \/ ~request.parsed
              \/ ~request.transaction.present
              \/ ~request.client.present
              \/ ~request.orderItems.present
           THEN ErrorBody
           ELSE SuccessBody

\* C6 (amended): a webhook is answered 200 or 401 and nothing else; one not
\* answered 401 is answered 200 with {error} when the body is unparseable or
\* the transaction is missing, and with {success, event, orderId, status}
\* otherwise, a missing client or orderItems included (no Tracking Service
\* call is made for it).
C6_AlwaysAcknowledged ==
    handler = "webhook" =>
        /\ pc = "done" => response.status \in {200, 401}
        /\ (pc = "done" /\ response.status # 401) =>
              IF ~request.parsed \/ ~request.transaction.present
              THEN ErrorBody /\ calls = <<>>
              ELSE /\ SuccessBody
                   /\ (~request.client.present \/ ~request.orderItems.present)
                          => calls = <<>>

\* C6 witness: a paid event without client, answered with the success body.
C6_Witness ==
    /\ VerifiedWebhook
    /\ pc = "done"
    /\ request.event = "TRANSACTION_PAID"
    /\ request.transaction.present
    /\ ~request.client.present
    /\ response.status = 200
    /\ ~ErrorBody

\* The one Tracking Service call an event is claimed to make.
ReportsOnce(status, wire, approvedDate) ==
    /\ Len(calls) = 1
    /\ calls[1].api = "sendOrderToUtmfy"
    /\ calls[1].params.status = status
    /\ calls[1].wireStatus = wire
    /\ calls[1].params.approvedDate = approvedDate
    /\ calls[1].params.orderId = request.transaction.identifier

Dispatched ==
    CASE request.event = "TRANSACTION_PAID" ->
             ReportsOnce("approved", "paid", request.transaction.payedAt)
      [] request.event = "TRANSACTION_CANCELED" ->
             ReportsOnce("refused", "refused", Undefined)
      [] request.event = "TRANSACTION_REFUNDED" ->
             ReportsOnce("refunded", "refunded", Undefined)
      [] OTHER -> calls = <<>>

WellFormedPayload ==
    /\ request.transaction.present
    /\ request.client.present
    /\ request.orderItems.present

C8_Only200Or400 ==
    (handler = "create" /\ request.parsed /\ pc = "done") =>
        response.status \in {200, 400}

\* C9: the status query is answered 400 without a call when neither
\* transactionId nor orderId is given; otherwise it makes one get-transaction
\* call and is answered 404 with the client's error message when the call
\* fails, and 200 when it succeeds, with status "paid" exactly when the
\* provider's status is COMPLETED and the provider's status in lower case
\* otherwise.
C9_StatusQuery ==
    handler = "status" =>
        IF Missing(request.query.transactionId) /\ Missing(request.query.orderId)
        THEN pc = "done" /\ response.status = 400 /\ calls = <<>>
        ELSE /\ Len(calls) = 1
             /\ calls[1].api = "getTransaction"
             /\ pc = "done" =>
                   IF ~pixResult.success
                   THEN /\ response.status = 404
                        /\ response.body.error = pixResult.error
                   ELSE /\ response.status = 200
                        /\ (response.body.status = "paid")
                               <=> (pixResult.data.status = "COMPLETED")
                        /\ pixResult.data.status # "COMPLETED" =>
                               response.body.status
                                   = toLowerCase(pixResult.data.status)

\* C9 witness: a query by order id alone, answered 200 with status "pending".
C9_Witness ==
    /\ handler = "status"
    /\ pc = "done"
    /\ request.query.transactionId = Undefined
    /\ response.status = 200
    /\ pixResult.data.status = "PENDING"
    /\ response.body.status = "pending"

\* C10: the outbound calls of one charge-creation request are at most one
\* create-charge call followed by at most one Tracking Service call; the
\* Tracking Service call is made only once the create-charge call has
\* returned success; a failed create-charge call is answered 400 with its
\* message and no Tracking Service call.
C10_CallOrder ==
    handler = "create" =>
        /\ Len(calls) <= 2
        /\ Len(calls) >= 1 => calls[1].api = "createPixPayment"
        /\ Len(calls) = 2 =>
              /\ calls[2].api = "sendOrderToUtmfy"
              /\ pixResult.returned
              /\ pixResult.success
        /\ (pc = "awaitCreatePixPayment") <=> (Len(calls) = 1 /\ ~pixResult.returned)
        /\ (pixResult.returned /\ ~pixResult.success) =>
              /\ pc = "done"
              /\ Len(calls) = 1
              /\ response.status = 400
              /\ response.body.error = pixResult.error

\* C10 witness: the provider refused the charge; one call, answered 400 with
\* its message.
C10_Witness ==
    /\ handler = "create"
    /\ pc = "done"
    /\ pixResult.returned
    /\ ~pixResult.success
    /\ Len(calls) = 1
    /\ response.status = 400
    /\ response.body.error = "Documento invalido"

\* The public key or the secret key of the Payment Provider is not set.
KeysMissing == ~env.SLIMPAY_PUBLIC_KEY \/ ~env.SLIMPAY_SECRET_KEY

\* C11: with the public or the secret key not configured, createPixPayment
\* and getTransaction send nothing on the network and return success = false
\* with the configuration error; the charge-creation handler then answers
\* with that error and makes no Tracking Service call.
C11_NoCredentialsNoCall ==
    (KeysMissing /\ handler \in {"create", "status"}) =>
        /\ \A i \in 1..Len(calls) :
               /\ calls[i].api \in {"createPixPayment", "getTransaction"}
               /\ ~calls[i].sent
        /\ pixResult.returned =>
               /\ ~pixResult.success
               /\ pixResult.error = ConfigError
               /\ pc = "done"
               /\ response.status \in {400, 404}
               /\ response.body.error = ConfigError
               /\ (response.status = 400) <=> (handler = "create")

\* C11 witness: only the public key is missing; the charge-creation handler
\* invoked createPixPayment, nothing was sent, and the answer is the
\* configuration error.
C11_Witness ==
    /\ handler = "create"
    /\ ~env.SLIMPAY_PUBLIC_KEY
    /\ env.SLIMPAY_SECRET_KEY
    /\ pc = "done"
    /\ Len(calls) = 1
    /\ ~calls[1].sent
    /\ pixResult.returned
    /\ response.body.error = ConfigError

\* The five internal status values.
InternalStatuses == {"waiting_payment", "paid", "refused", "refunded", "chargedback"}

\* The table of C12.
SlimPayTable(st) ==
    IF st = "COMPLETED" THEN "paid"
    ELSE IF st = "PENDING" THEN "waiting_payment"
    ELSE IF st = "FAILED" \/ st = "REJECTED" \/ st = "CANCELED" THEN "refused"
    ELSE IF st = "REFUNDED" THEN "refunded"
    ELSE IF st = "CHARGED_BACK" THEN "chargedback"
    ELSE "waiting_payment"

\* C12: mapSlimPayStatus is defined on every string, follows the table
\* COMPLETED -> paid, PENDING -> waiting_payment, FAILED, REJECTED, CANCELED
\* -> refused, REFUNDED -> refunded, CHARGED_BACK -> chargedback, anything
\* else -> waiting_payment, and its result is one of the five internal
\* statuses.
C12_SlimPayStatusTable ==
    (handler = "map" /\ pc = "mapSlimPayStatus" /\ calls # <<>>) =>
        /\ calls[1] = SlimPayTable(request.status)
        /\ calls[1] \in InternalStatuses

\* C12 witness: CANCELED was mapped to refused.
C12_Witness ==
    /\ handler = "map"
    /\ pc = "mapSlimPayStatus"
    /\ request.status = "CANCELED"
    /\ calls = <<"refused">>

\* C15 (as claimed): mapStatusToUtmfy yields one of the five canonical
\* statuses, maps pending, approved, cancelled and chargeback to
\* waiting_payment, paid, refused and chargedback, maps each canonical status
\* to itself, and applied to its own result returns that result.
C15_UtmfyStatusIdempotent ==
    (handler = "map" /\ pc = "mapStatusToUtmfy" /\ calls # <<>>) =>
        /\ \A i \in 1..Len(calls) : calls[i] \in InternalStatuses
        /\ request.status = "pending" => calls[1] = "waiting_payment"
        /\ request.status = "approved" => calls[1] = "paid"
        /\ request.status = "cancelled" => calls[1] = "refused"
        /\ request.status = "chargeback" => calls[1] = "chargedback"
        /\ request.status \in InternalStatuses => calls[1] = request.status
        /\ \A i \in 2..Len(calls) : calls[i] = calls[i - 1]

\* The postal code of C13: the digits of the input, with a hyphen after the
\* fifth when there are exactly eight.
ExpectedZipCode(cep) ==
    LET d == DigitsOf(cep)
    IN  IF Len(d) = 8
        THEN [i \in 1..9 |-> IF i <= 5 THEN d[i]
                             ELSE IF i = 6 THEN "-" ELSE d[i - 1]]
        ELSE d

\* C13: the postal code sent to the provider is the input without its
\* non-digits, with a hyphen after the fifth digit exactly when eight digits
\* remain, and the bare digits for any other count.
C13_PostalCode ==
    handler = "create" =>
        \A i \in CallsTo("createPixPayment") :
            calls[i].data.client.address.zipCode
                = ExpectedZipCode(request.address.cep)

\* C13 witness: 12345678 was sent as 12345-678.
C13_Witness ==
    /\ handler = "create"
    /\ CallsTo("createPixPayment") # {}
    /\ request.address.cep = <<"1", "2", "3", "4", "5", "6", "7", "8">>
    /\ calls[1].data.client.address.zipCode
           = <<"1", "2", "3", "4", "5", "-", "6", "7", "8">>

\* The attribution parameter k is present and non-empty in the request.
ParamGiven(k) ==
    /\ request.trackingParams.present
    /\ ~Missing(request.trackingParams[k])

\* C14 (as claimed): the metadata of the create-charge call holds the source
\* tag and, for each of the seven attribution parameters that is present and
\* non-empty, an entry with its value; an absent parameter has no entry.
C14_EveryParamEchoed ==
    handler = "create" =>
        \A i \in CallsTo("createPixPayment") :
            /\ calls[i].data.metadata["source"] = <<SourceTag>>
            /\ \A k \in TrackingKeys :
                   IF ParamGiven(k)
                   THEN /\ k \in DOMAIN calls[i].data.metadata
                        /\ calls[i].data.metadata[k] = request.trackingParams[k]
                   ELSE k \notin DOMAIN calls[i].data.metadata

\* C14 (amended): the metadata holds the source tag and, for each of
\* utm_source, utm_medium and utm_campaign that is present and non-empty, an
\* entry with its value, and nothing else: an absent or empty parameter has
\* no entry, and src, sck, utm_content and utm_term never have one.
C14_UtmParamsEchoed ==
    handler = "create" =>
        \A i \in CallsTo("createPixPayment") :
            /\ calls[i].data.metadata["source"] = <<SourceTag>>
            /\ DOMAIN calls[i].data.metadata
                   = {"source"} \cup {k \in {"utm_source", "utm_medium", "utm_campaign"} :
                                         ParamGiven(k)}
            /\ \A k \in DOMAIN calls[i].data.metadata \ {"source"} :
                   calls[i].data.metadata[k] = request.trackingParams[k]

\* C14 witness: all seven parameters were given and the call carries the
\* tag and the three utm entries.
C14_Witness ==
    /\ handler = "create"
    /\ CallsTo("createPixPayment") # {}
    /\ \A k \in TrackingKeys : ParamGiven(k)
    /\ DOMAIN calls[1].data.metadata
           = {"source", "utm_source", "utm_medium", "utm_campaign"}
    /\ calls[1].data.metadata["utm_campaign"] = TrackingValue("utm_campaign")

====
